---------------------------- MODULE Spec2Model ----------------------------
(***************************************************************************)
(* A model of clg/table.py: the text wrapping of a Cell, the column width  *)
(* allocation, the border composition and the render/flush cycle of a      *)
(* TextTable.                                                              *)
(*                                                                         *)
(* A string is a sequence of one-character strings.  Every cell of the     *)
(* model has border_color = None and text_color = None (the defaults), so  *)
(* set_color returns its text unchanged.                                   *)
(***************************************************************************)
EXTENDS Integers, Sequences, FiniteSets, TLC

(***************************************************************************)
(* Bounds of the model.                                                    *)
(***************************************************************************)
MaxLen == 4
MaxWidth == 6
MaxIndent == 2
MaxTerm == 14
MaxBorderRows == 2
MaxBorderCols == 2
MaxRows == 2
MaxFlushes == 2

Chars == {" ", "a", "b"}
HAligns == {"left", "center", "right"}

(***************************************************************************)
(* Python's sequences.                                                     *)
(***************************************************************************)
Max2(a, b) == IF a >= b THEN a ELSE b
Min2(a, b) == IF a <= b THEN a ELSE b

\* ' ' * n
Spaces(n) == [i \in 1..n |-> " "]

\* [value] * n
Repeat(value, n) == [i \in 1..n |-> value]

\* s[0:n], n of either sign
Take(s, n) ==
    LET k == IF n >= 0 THEN Min2(n, Len(s)) ELSE Max2(Len(s) + n, 0)
    IN  SubSeq(s, 1, k)

\* s[n:], n of either sign
Drop(s, n) ==
    LET k == IF n >= 0 THEN Min2(n, Len(s)) ELSE Max2(Len(s) + n, 0)
    IN  SubSeq(s, k + 1, Len(s))

RECURSIVE SplitAt(_, _, _)
SplitAt(line, i, cur) ==
    IF i > Len(line) THEN <<cur>>
    ELSE IF line[i] = " " THEN <<cur>> \o SplitAt(line, i + 1, <<>>)
    ELSE SplitAt(line, i + 1, Append(cur, line[i]))

\* line.split(' ')
Split(line) == SplitAt(line, 1, <<>>)

\* F(v), with v evaluated once however often F uses it
Bind(v, F(_)) == CHOOSE y \in {F(x) : x \in {v}} : TRUE

\* ''.join(ss), computed by halves
RECURSIVE Flatten(_)
Flatten(ss) ==
    IF ss = <<>> THEN <<>>
    ELSE IF Len(ss) = 1 THEN ss[1]
    ELSE LET h == Len(ss) \div 2
         IN  Flatten(SubSeq(ss, 1, h)) \o Flatten(SubSeq(ss, h + 1, Len(ss)))

\* sum(s), computed by halves
RECURSIVE SumSeq(_)
SumSeq(s) ==
    IF s = <<>> THEN 0
    ELSE IF Len(s) = 1 THEN s[1]
    ELSE LET h == Len(s) \div 2
         IN  SumSeq(SubSeq(s, 1, h)) + SumSeq(SubSeq(s, h + 1, Len(s)))

\* max(s) of a sequence that is not empty
MaxSeq(s) == CHOOSE m \in {s[i] : i \in 1..Len(s)} : \A i \in 1..Len(s) : s[i] <= m

(***************************************************************************)
(* Cell.                                                                   *)
(***************************************************************************)
AllVisible == [top |-> TRUE, right |-> TRUE, bottom |-> TRUE, left |-> TRUE]

Cell(text, min_width, width, max_width, padding_top, padding_bottom, padding_left, padding_right, halign, newline_indent, border_visibility) ==
    [text |-> text, min_width |-> min_width, width |-> width,
     max_width |-> max_width, padding_top |-> padding_top,
     padding_bottom |-> padding_bottom, padding_left |-> padding_left,
     padding_right |-> padding_right, halign |-> halign,
     newline_indent |-> newline_indent,
     border_visibility |-> border_visibility]

\* Cell(text) with every keyword argument left to its default
DefaultCell(text) == Cell(text, -1, -1, -1, 0, 0, 1, 1, "left", 1, AllVisible)

get_min_width(cell) ==
    IF cell.min_width # -1 THEN cell.min_width
    ELSE cell.padding_left + 1 + cell.padding_right

get_text_width(cell) ==
    cell.padding_left
    + (IF cell.text # <<>>
       THEN MaxSeq([i \in 1..Len(cell.text) |-> Len(cell.text[i])])
       ELSE 0)
    + cell.padding_right

\* '{:{align}{width}s}'.format(value, ...): pads, never truncates
FormatPad(value, align, width) ==
    LET pad == Max2(width - Len(value), 0)
        lft == CASE align = "left" -> 0
                 [] align = "right" -> pad
                 [] align = "center" -> pad \div 2
    IN  Spaces(lft) \o value \o Spaces(pad - lft)

\* a bug: the right padding left out of the formatted width
format_short(cell, value, width) ==
    LET padded == Spaces(cell.padding_left) \o value \o Spaces(cell.padding_right)
    IN  FormatPad(padded, cell.halign, width + cell.padding_left)

format(cell, value, width) ==
    LET padded == Spaces(cell.padding_left) \o value \o Spaces(cell.padding_right)
    IN  FormatPad(padded, cell.halign,
                  width + cell.padding_left + cell.padding_right)

(***************************************************************************)
(* split_word.  A result is [ok, lines]; ok = FALSE when the while loop    *)
(* comes back to an iteration with the same word and first_line = False:   *)
(* the loop then repeats that iteration for ever.                          *)
(***************************************************************************)
Diverged == [ok |-> FALSE, lines |-> <<>>]

\* a bug: a continuation chunk as wide as the first one
cur_width_noindent(cell, width, first_line) == width

\* cur_width, the number of characters of the word a chunk takes
cur_width_of(cell, width, first_line) ==
    IF ~first_line THEN width - cell.newline_indent ELSE width

RECURSIVE split_word_loop(_, _, _, _, _)
split_word_loop(cell, word, width, first_line, lines) ==
    IF word = <<>> THEN [ok |-> TRUE, lines |-> lines]
    ELSE LET cur_width == cur_width_of(cell, width, first_line)
             string == (IF ~first_line THEN Spaces(cell.newline_indent)
                        ELSE <<>>) \o Take(word, cur_width)
             rest == Drop(word, cur_width)
         IN  IF ~first_line /\ rest = word THEN Diverged
             ELSE split_word_loop(cell, rest, width, FALSE,
                                  Append(lines, string))

split_word(cell, word, width) == split_word_loop(cell, word, width, TRUE, <<>>)

at_start(cell, line) ==
    \/ line = <<>>
    \/ line = Spaces(cell.newline_indent)
    \/ (line # <<>> /\ line[1] = " ")

FormatAll(cell, strings, width) ==
    [i \in 1..Len(strings) |-> format(cell, strings[i], width)]

\* the `while words` loop of split_text, for one line of the text
RECURSIVE split_words(_, _, _, _, _)
split_words(cell, words, cur_line, lines, width) ==
    IF words = <<>>
    THEN [ok |-> TRUE,
          lines |-> IF ~at_start(cell, cur_line)
                    THEN Append(lines, format(cell, cur_line, width))
                    ELSE lines]
    ELSE LET word == Head(words)
             new_line == IF word = <<>> THEN cur_line \o <<" ">>
                         ELSE cur_line
                              \o (IF at_start(cell, cur_line) THEN <<>>
                                  ELSE <<" ">>)
                              \o word
             indent == Spaces(cell.newline_indent)
         IN  IF Len(new_line) > width
             THEN IF Len(word) > width
                  THEN LET sw == split_word(cell, new_line, width)
                       IN  IF ~sw.ok THEN Diverged
                           ELSE split_words(cell, Tail(words), indent,
                                    lines \o FormatAll(cell, sw.lines, width),
                                    width)
                  ELSE LET lines1 == Append(lines, format(cell, cur_line, width))
                           cur1 == indent \o word
                       IN  IF Len(cur1) > width
                           THEN LET sw == split_word(cell, cur1, width)
                                IN  IF ~sw.ok THEN Diverged
                                    ELSE split_words(cell, Tail(words), indent,
                                        lines1 \o FormatAll(cell, sw.lines, width),
                                        width)
                           ELSE split_words(cell, Tail(words), cur1, lines1, width)
             ELSE split_words(cell, Tail(words), new_line, lines, width)

\* the `for line in self.text` loop of split_text
RECURSIVE split_lines(_, _, _, _)
split_lines(cell, text, lines, width) ==
    IF text = <<>> THEN [ok |-> TRUE, lines |-> lines]
    ELSE LET line == Head(text)
         IN  IF Len(line) <= width
             THEN split_lines(cell, Tail(text),
                              Append(lines, format(cell, line, width)), width)
             ELSE LET r == split_words(cell, Split(line), <<>>, lines, width)
                  IN  IF ~r.ok THEN Diverged
                      ELSE split_lines(cell, Tail(text), r.lines, width)

\* self.text after the top and bottom padding lines are inserted
PaddedText(cell) ==
    Repeat(<<" ">>, cell.padding_top) \o cell.text
    \o Repeat(<<" ">>, cell.padding_bottom)

\* Cell.split_text: [ok, cell], the cell as the call leaves it; ok = FALSE
\* when the call never returns
split_text(cell, width) ==
    LET text == PaddedText(cell)
        r == split_lines(cell, text, <<>>,
                         width - cell.padding_left - cell.padding_right)
    IN  IF r.ok THEN [ok |-> TRUE, cell |-> [cell EXCEPT !.text = r.lines]]
        ELSE [ok |-> FALSE, cell |-> [cell EXCEPT !.text = text]]

(***************************************************************************)
(* TextTable._get_columns_widths.  A table is a sequence of rows, a row    *)
(* the sequence of its cells.                                              *)
(***************************************************************************)
MaxOf(S) == CHOOSE m \in S : \A x \in S : x <= m

NumColumns(rows) == MaxOf({0} \cup {Len(rows[r]) : r \in 1..Len(rows)})

\* ColumnWidths(width, min_width, max_width, text_width) of every column,
\* as the first loop of _get_columns_widths leaves them
columns_widths(rows) ==
    [c \in 1..NumColumns(rows) |->
        LET cells == {rows[r][c] : r \in {q \in 1..Len(rows) : Len(rows[q]) >= c}}
        IN  [width |-> MaxOf({-1} \cup {k.width : k \in cells}),
             min_width |-> MaxOf({-1} \cup {get_min_width(k) : k \in cells}),
             max_width |-> MaxOf({-1} \cup {k.max_width : k \in cells}),
             text_width |-> MaxOf({-1} \cup {get_text_width(k) : k \in cells})]]

\* widths, status and remaining_size after the seeding loop
seed_widths(columns, term_width) ==
    LET n == Len(columns)
        ws == [c \in 1..n |-> IF columns[c].width # -1 THEN columns[c].width
                              ELSE columns[c].min_width]
    IN  [widths |-> ws,
         status |-> [c \in 1..n |->
                        IF columns[c].width # -1 THEN TRUE
                        ELSE columns[c].text_width <= columns[c].min_width],
         remaining |-> term_width - n - 1 - SumSeq(ws)]

preferred_width(column) ==
    IF column.max_width # -1 THEN column.max_width ELSE column.text_width

\* a bug: the growth loop goes on to the next column with nothing remaining
stop_never(remaining) == FALSE

\* `if remaining_size <= 0: break` of the growth loop
stop_growth(remaining) == remaining <= 0

\* a bug: two units granted at once where two fit under the target
visit_column_pairs(columns, st, idx) ==
    IF st.status[idx] THEN [st EXCEPT !.brk = FALSE]
    ELSE LET preferred == preferred_width(columns[idx])
             units == IF st.widths[idx] + 2 <= preferred THEN 2 ELSE 1
         IN  IF st.widths[idx] < preferred
             THEN [widths |-> [st.widths EXCEPT ![idx] = @ + units],
                   status |-> [st.status EXCEPT
                                 ![idx] = (st.widths[idx] + units = preferred)],
                   remaining |-> st.remaining - units,
                   brk |-> stop_growth(st.remaining - units)]
             ELSE [st EXCEPT !.brk = FALSE]

\* one iteration of `for idx, column in enumerate(columns_widths)`:
\* [widths, status, remaining, brk], brk when the iteration ends in break
visit_column(columns, st, idx) ==
    IF st.status[idx] THEN [st EXCEPT !.brk = FALSE]
    ELSE LET preferred == preferred_width(columns[idx])
         IN  IF st.widths[idx] < preferred
             THEN [widths |-> [st.widths EXCEPT ![idx] = @ + 1],
                   status |-> [st.status EXCEPT
                                 ![idx] = (st.widths[idx] + 1 = preferred)],
                   remaining |-> st.remaining - 1,
                   brk |-> stop_growth(st.remaining - 1)]
             ELSE [st EXCEPT !.brk = FALSE]

AllDone(status) == \A c \in 1..Len(status) : status[c]

\* one pass of the for loop, from column idx on
RECURSIVE grow_pass(_, _, _)
grow_pass(columns, st, idx) ==
    IF idx > Len(columns) THEN st
    ELSE Bind(visit_column(columns, st, idx),
              LAMBDA st1 : IF st1.brk THEN st1
                           ELSE grow_pass(columns, st1, idx + 1))

\* the `while True` loop: [ok, widths, remaining]; ok = FALSE when a pass
\* changes nothing, so that the loop repeats it for ever
RECURSIVE grow_loop(_, _)
grow_loop(columns, st) ==
    IF st.remaining <= 0 \/ AllDone(st.status)
    THEN [ok |-> TRUE, widths |-> st.widths, remaining |-> st.remaining]
    ELSE Bind(grow_pass(columns, st, 1),
              LAMBDA st1 :
                IF st1.widths = st.widths /\ st1.status = st.status
                THEN [ok |-> FALSE, widths |-> st.widths,
                      remaining |-> st.remaining]
                ELSE grow_loop(columns, st1))

\* _get_columns_widths on a table whose self.widths is empty
get_columns_widths(rows, term_width) ==
    Bind(columns_widths(rows),
         LAMBDA columns :
           Bind(seed_widths(columns, term_width),
                LAMBDA sd :
                  grow_loop(columns, [widths |-> sd.widths, status |-> sd.status,
                                      remaining |-> sd.remaining, brk |-> FALSE])))

(***************************************************************************)
(* STYLES.  A glyph is the code point of its character.                    *)
(***************************************************************************)
STYLES ==
    [modern |->
        [topleft |-> 9484, topright |-> 9488, bottomleft |-> 9492,
         bottomright |-> 9496, vertical |-> 9474, horizontal |-> 9472,
         intersection |-> 9532, topinter |-> 9516, bottominter |-> 9524,
         leftinter |-> 9500, rightinter |-> 9508, none |-> 32],
     classic |->
        [topleft |-> 43, topright |-> 43, bottomleft |-> 43,
         bottomright |-> 43, vertical |-> 124, horizontal |-> 45,
         intersection |-> 43, topinter |-> 43, bottominter |-> 43,
         leftinter |-> 43, rightinter |-> 43, none |-> 32]]

StyleNames == {"modern", "classic"}

(***************************************************************************)
(* The border composer.  Rows and columns are numbered from 1: row_idx and *)
(* col_idx of the source are r - 1 and c - 1.  A lookup that raises        *)
(* IndexError gives a result with err = TRUE.                              *)
(***************************************************************************)
HasCell(rows, r, c) == r \in 1..Len(rows) /\ c \in 1..Len(rows[r])

RSide(side) ==
    CASE side = "top" -> "bottom" [] side = "right" -> "left"
      [] side = "bottom" -> "top" [] side = "left" -> "right"

Vis(v) == [err |-> FALSE, val |-> v]
VisError == [err |-> TRUE, val |-> FALSE]

get_visibility(rows, r, c, x, y, side) ==
    IF ~HasCell(rows, r, c) THEN VisError
    ELSE LET own == rows[r][c].border_visibility[side]
         IN  IF r + y > Len(rows) THEN Vis(own)
             ELSE IF c + x > Len(rows[r + y]) THEN Vis(own)
             ELSE Vis(own /\ rows[r + y][c + x].border_visibility[RSide(side)])

\* The keys of a mapping are a name and '!' + name; sorted in reverse, the
\* first is the name without '!'.  A name is side, '+' side, '&' side or
\* '+&' side.
Key(plus, amp, side) == [plus |-> plus, amp |-> amp, side |-> side]
Own(side) == Key(FALSE, FALSE, side)
Next1(side) == Key(TRUE, FALSE, side)
Both(side) == Key(FALSE, TRUE, side)
Next1Both(side) == Key(TRUE, TRUE, side)

\* `key in ('left', 'right')`, evaluated on the key with its '&' in front
InLeftRight(key) == ~key.amp /\ key.side \in {"left", "right"}

\* the visibility get_symbol computes for a key
key_visibility(rows, r, c, key) ==
    IF key.plus
    THEN IF key.amp
         THEN IF InLeftRight(key)
              THEN get_visibility(rows, r + 1, c, 1, 0, key.side)
              ELSE get_visibility(rows, r, c + 1, 0, 1, key.side)
         ELSE IF InLeftRight(key)
              THEN IF HasCell(rows, r + 1, c)
                   THEN Vis(rows[r + 1][c].border_visibility[key.side])
                   ELSE VisError
              ELSE IF HasCell(rows, r, c + 1)
                   THEN Vis(rows[r][c + 1].border_visibility[key.side])
                   ELSE VisError
    ELSE IF key.amp
         THEN IF InLeftRight(key)
              THEN get_visibility(rows, r, c, 1, 0, key.side)
              ELSE get_visibility(rows, r, c, 0, 1, key.side)
         ELSE Vis(rows[r][c].border_visibility[key.side])

\* A mapping: a glyph, or a key with the mappings of key and of '!' + key.
Leaf(style, role) == [leaf |-> TRUE, glyph |-> STYLES[style][role]]
Node(key, pos, neg) == [leaf |-> FALSE, key |-> key, pos |-> pos, neg |-> neg]

Glyph(g) == [err |-> "", some |-> TRUE, glyph |-> g]
NoGlyph == [err |-> "", some |-> FALSE, glyph |-> 0]
Raised(e) == [err |-> e, some |-> FALSE, glyph |-> 0]

RECURSIVE get_symbol(_, _, _, _)
get_symbol(rows, r, c, mapping) ==
    IF mapping.leaf THEN Glyph(mapping.glyph)
    ELSE LET v == key_visibility(rows, r, c, mapping.key)
         IN  IF v.err THEN Raised("IndexError")
             ELSE get_symbol(rows, r, c,
                             IF v.val THEN mapping.pos ELSE mapping.neg)

\* lines 276-281
map_topleft(s) ==
    Node(Own("top"),
         Node(Own("left"), Leaf(s, "topleft"), Leaf(s, "horizontal")),
         Node(Own("left"), Leaf(s, "vertical"), Leaf(s, "none")))

\* lines 293-298
map_topright_corner(s) ==
    Node(Own("top"),
         Node(Own("right"), Leaf(s, "topright"), Leaf(s, "horizontal")),
         Node(Own("right"), Leaf(s, "vertical"), Leaf(s, "none")))

\* lines 302-315
map_topright(s) ==
    Node(Own("top"),
         Node(Next1("top"),
              Node(Both("right"), Leaf(s, "topinter"), Leaf(s, "horizontal")),
              Node(Both("right"), Leaf(s, "topright"), Leaf(s, "horizontal"))),
         Node(Next1("top"),
              Node(Both("right"), Leaf(s, "topleft"), Leaf(s, "horizontal")),
              Node(Both("right"), Leaf(s, "vertical"), Leaf(s, "none"))))

\* lines 335-340
map_bottomleft_corner(s) ==
    Node(Own("left"),
         Node(Own("bottom"), Leaf(s, "bottomleft"), Leaf(s, "vertical")),
         Node(Own("bottom"), Leaf(s, "horizontal"), Leaf(s, "none")))

\* lines 344-357
map_bottomleft(s) ==
    Node(Own("left"),
         Node(Next1("left"),
              Node(Both("bottom"), Leaf(s, "leftinter"), Leaf(s, "vertical")),
              Node(Both("bottom"), Leaf(s, "bottomleft"), Leaf(s, "none"))),
         Node(Next1("left"),
              Node(Both("bottom"), Leaf(s, "topleft"), Leaf(s, "none")),
              Node(Both("bottom"), Leaf(s, "horizontal"), Leaf(s, "none"))))

\* lines 370-375
map_bottomright_corner(s) ==
    Node(Own("right"),
         Node(Own("bottom"), Leaf(s, "bottomright"), Leaf(s, "vertical")),
         Node(Own("bottom"), Leaf(s, "horizontal"), Leaf(s, "none")))

\* lines 379-392
map_bottomright_lastcol(s) ==
    Node(Own("right"),
         Node(Next1("right"),
              Node(Both("bottom"), Leaf(s, "rightinter"), Leaf(s, "vertical")),
              Node(Both("bottom"), Leaf(s, "bottomright"), Leaf(s, "none"))),
         Node(Next1("right"),
              Node(Both("bottom"), Leaf(s, "topright"), Leaf(s, "none")),
              Node(Both("bottom"), Leaf(s, "horizontal"), Leaf(s, "none"))))

\* lines 397-410
map_bottomright_lastrow(s) ==
    Node(Own("bottom"),
         Node(Both("right"),
              Node(Next1("bottom"), Leaf(s, "bottominter"), Leaf(s, "bottomright")),
              Node(Next1("bottom"), Leaf(s, "horizontal"), Leaf(s, "none"))),
         Node(Both("right"),
              Node(Next1("bottom"), Leaf(s, "bottomleft"), Leaf(s, "vertical")),
              Node(Next1("bottom"), Leaf(s, "none"), Leaf(s, "none"))))

\* a bug: the glyphs of the full junction and of the right tee exchanged
map_bottomright_swapped(s) ==
    LET quad(a, b, c, d) ==
            Node(Next1Both("right"),
                 Node(Next1Both("bottom"), Leaf(s, a), Leaf(s, b)),
                 Node(Next1Both("bottom"), Leaf(s, c), Leaf(s, d)))
    IN  Node(Both("right"),
             Node(Both("bottom"),
                  quad("rightinter", "intersection", "bottominter", "bottomright"),
                  quad("leftinter", "vertical", "bottomleft", "none")),
             Node(Both("bottom"),
                  quad("topinter", "topright", "horizontal", "none"),
                  quad("topleft", "none", "horizontal", "none")))

\* lines 415-444
map_bottomright(s) ==
    LET quad(a, b, c, d) ==
            Node(Next1Both("right"),
                 Node(Next1Both("bottom"), Leaf(s, a), Leaf(s, b)),
                 Node(Next1Both("bottom"), Leaf(s, c), Leaf(s, d)))
    IN  Node(Both("right"),
             Node(Both("bottom"),
                  quad("intersection", "rightinter", "bottominter", "bottomright"),
                  quad("leftinter", "vertical", "bottomleft", "none")),
             Node(Both("bottom"),
                  quad("topinter", "topright", "horizontal", "none"),
                  quad("topleft", "none", "horizontal", "none")))

Sides == {"topleft", "tophoriz", "topright", "leftvert", "rightvert",
          "bottomleft", "bottomhoriz", "bottomright"}

\* the mapping get_border hands to get_symbol, when it hands one
border_mapping(s, side, first_row, last_row, first_col, last_col) ==
    CASE side = "topleft" ->
           IF first_row /\ first_col THEN <<map_topleft(s)>> ELSE <<>>
      [] side = "tophoriz" ->
           IF first_row
           THEN <<Node(Own("top"), Leaf(s, "horizontal"), Leaf(s, "none"))>>
           ELSE <<>>
      [] side = "topright" ->
           IF first_row /\ last_col THEN <<map_topright_corner(s)>>
           ELSE IF first_row THEN <<map_topright(s)>>
           ELSE <<>>
      [] side = "leftvert" ->
           IF first_col
           THEN <<Node(Own("left"), Leaf(s, "vertical"), Leaf(s, "none"))>>
           ELSE <<>>
      [] side = "rightvert" ->
           <<Node(Both("right"), Leaf(s, "vertical"), Leaf(s, "none"))>>
      [] side = "bottomleft" ->
           IF last_row /\ first_col THEN <<map_bottomleft_corner(s)>>
           ELSE IF first_col THEN <<map_bottomleft(s)>>
           ELSE <<>>
      [] side = "bottomhoriz" ->
           <<Node(Both("bottom"), Leaf(s, "horizontal"), Leaf(s, "none"))>>
      [] side = "bottomright" ->
           IF last_row /\ last_col THEN <<map_bottomright_corner(s)>>
           ELSE IF last_col THEN <<map_bottomright_lastcol(s)>>
           ELSE IF last_row THEN <<map_bottomright_lastrow(s)>>
           ELSE <<map_bottomright(s)>>

\* whether get_border reaches a branch that looks the style up in STYLES
border_drawn(side, first_row, last_row, first_col, last_col) ==
    CASE side \in {"topleft"} -> first_row /\ first_col
      [] side \in {"tophoriz", "topright"} -> first_row
      [] side \in {"leftvert", "bottomleft"} -> first_col
      [] side \in {"rightvert", "bottomhoriz", "bottomright"} -> TRUE

\* TextTable.get_border for the cell (r, c) of a table with ncols widths
get_border(rows, ncols, style, side, r, c) ==
    LET first_row == r = 1
        last_row == r = Len(rows)
        first_col == c = 1
        last_col == c = ncols
    IN  IF ~border_drawn(side, first_row, last_row, first_col, last_col)
        THEN NoGlyph
        ELSE IF style \notin DOMAIN STYLES THEN Raised("KeyError")
        ELSE get_symbol(rows, r, c,
                 border_mapping(style, side, first_row, last_row,
                                first_col, last_col)[1])

(***************************************************************************)
(* Buffer and TextTable.render.  A line of the buffer is the sequence of   *)
(* its segments, a segment a string of code points; the lines are numbered *)
(* from 1.                                                                 *)
(***************************************************************************)
Code(ch) ==
    CASE ch = " " -> 32 [] ch = "a" -> 97 [] ch = "b" -> 98 [] ch = "T" -> 84

Codes(s) == [i \in 1..Len(s) |-> Code(s[i])]

\* the segment Buffer.setdefault fills a gap with: fill = '?'
FillLine == <<<<63>>>>

BorderOp(idx, b, n) ==
    [idx |-> idx, err |-> b.err, some |-> b.some, seg |-> <<b.glyph>>, n |-> n]

TextOp(idx, text, n) ==
    [idx |-> idx, err |-> "", some |-> text # <<>>, seg |-> Codes(text), n |-> n]

\* get_row_height: the cells of the row are wrapped from the left;
\* [status, row, height]
RECURSIVE get_row_height(_, _, _, _)
get_row_height(row, widths, c, heights) ==
    IF c > Len(row)
    THEN IF heights = <<>>
         THEN [status |-> "ValueError", row |-> row, height |-> 0]
         ELSE [status |-> "ok", row |-> row, height |-> MaxSeq(heights)]
    ELSE IF c > Len(widths)
    THEN [status |-> "IndexError", row |-> row, height |-> 0]
    ELSE Bind(split_text(row[c], widths[c]),
              LAMBDA st :
                Bind([row EXCEPT ![c] = st.cell],
                     LAMBDA row1 :
                       IF ~st.ok
                       THEN [status |-> "hang", row |-> row1, height |-> 0]
                       ELSE Bind(Append(heights, Len(st.cell.text)),
                                 LAMBDA heights1 :
                                   get_row_height(row1, widths, c + 1,
                                                  heights1))))

\* a variant of text_line whose filler is one space
text_line_single(cell, width, t, k) ==
    IF k <= Len(cell.text) THEN TextOp(t + k, cell.text[k], 1)
    ELSE TextOp(t + k, <<" ">>, 1)

\* lines 545-551: line k of the cell, or spaces over the width of the
\* column when the cell has fewer lines than the row
text_line(cell, width, t, k) ==
    IF k <= Len(cell.text) THEN TextOp(t + k, cell.text[k], 1)
    ELSE TextOp(t + k, <<" ">>, width)

\* lines 532-558: what render adds for the cell (r, c), whose row starts at
\* line t of the buffer and is height lines high, in the order of the calls
cell_ops(rows, widths, style, r, c, t, height) ==
    LET cell == rows[r][c]
        n == Len(widths)
        b(side) == get_border(rows, n, style, side, r, c)
    IN  <<BorderOp(t, b("topleft"), 1),
          BorderOp(t, b("tophoriz"), widths[c]),
          BorderOp(t, b("topright"), 1)>>
        \o Flatten([k \in 1..height |->
                      <<BorderOp(t + k, b("leftvert"), 1),
                        text_line(cell, widths[c], t, k),
                        BorderOp(t + k, b("rightvert"), 1)>>])
        \o <<BorderOp(t + height + 1, b("bottomleft"), 1),
             BorderOp(t + height + 1, b("bottomhoriz"), widths[c]),
             BorderOp(t + height + 1, b("bottomright"), 1)>>

RECURSIVE row_ops(_, _, _, _, _, _, _)
row_ops(rows, widths, style, r, c, t, height) ==
    IF c > Len(rows[r]) THEN <<>>
    ELSE cell_ops(rows, widths, style, r, c, t, height)
         \o row_ops(rows, widths, style, r, c + 1, t, height)

\* the adds in order, up to the first call that raises: every line an add
\* names exists afterwards, and holds what the adds with a value appended
\* to it, in their order
apply_ops(lines, ops) ==
    LET raised == {i \in 1..Len(ops) : ops[i].err # ""}
        last == MaxOf({Len(lines)} \cup {ops[i].idx : i \in 1..Len(ops)})
        on(idx) == SelectSeq(ops, LAMBDA op : op.idx = idx /\ op.some)
        named(idx) == \E i \in 1..Len(ops) : ops[i].idx = idx
        old(idx) == IF idx <= Len(lines) THEN lines[idx]
                    ELSE IF named(idx) THEN <<>> ELSE FillLine
    IN  IF raised # {}
        THEN [status |-> ops[CHOOSE i \in raised : \A j \in raised : i <= j].err,
              lines |-> lines]
        ELSE [status |-> "ok",
              lines |-> [idx \in 1..last |->
                           old(idx)
                           \o Flatten([i \in 1..Len(on(idx)) |->
                                         Repeat(on(idx)[i].seg, on(idx)[i].n)])]]

\* lines 527-561: `for row_idx, row in enumerate(self)`; [status, rows, lines]
RECURSIVE render_rows(_, _, _, _, _, _)
render_rows(rows, widths, style, r, t, lines) ==
    IF r > Len(rows) THEN [status |-> "ok", rows |-> rows, lines |-> lines]
    ELSE Bind(get_row_height(rows[r], widths, 1, <<>>),
              LAMBDA hr :
                Bind([rows EXCEPT ![r] = hr.row],
                     LAMBDA rows1 :
                       IF hr.status # "ok"
                       THEN [status |-> hr.status, rows |-> rows1,
                             lines |-> lines]
                       ELSE Bind(row_ops(rows1, widths, style, r, 1, t,
                                         hr.height),
                                 LAMBDA ops :
                                   Bind(apply_ops(lines, ops),
                                        LAMBDA ap :
                                          IF ap.status # "ok"
                                          THEN [status |-> ap.status,
                                                rows |-> rows1,
                                                lines |-> lines]
                                          ELSE render_rows(rows1, widths,
                                                 style, r + 1,
                                                 t + hr.height + 1,
                                                 ap.lines)))))

\* lines 563-565: lines[0][idx + 1] = char, for every character of the title
title_overlay(lines, title) ==
    IF title = <<>> THEN [status |-> "ok", lines |-> lines]
    ELSE IF lines = <<>> \/ Len(title) + 1 > Len(lines[1])
    THEN [status |-> "IndexError", lines |-> lines]
    ELSE LET first == lines[1]
         IN  [status |-> "ok",
              lines |-> [lines EXCEPT ![1] =
                           [i \in 1..Len(first) |->
                              IF i \in 2..(Len(title) + 1)
                              THEN <<Code(title[i - 1])>> ELSE first[i]]]]

\* TextTable.render: [status, rows, widths, lines]; status is "ok", the
\* exception raised, or "hang" when render never returns
render(rows, widths, style, title, term_width) ==
    Bind(IF widths = <<>> THEN get_columns_widths(rows, term_width)
         ELSE [ok |-> TRUE, widths |-> widths, remaining |-> 0],
         LAMBDA al :
           IF ~al.ok
           THEN [status |-> "hang", rows |-> rows, widths |-> al.widths,
                 lines |-> <<>>]
           ELSE Bind(render_rows(rows, al.widths, style, 1, 1, <<>>),
                     LAMBDA rr :
                       Bind(title_overlay(rr.lines, title),
                            LAMBDA tt :
                              [status |-> IF rr.status # "ok" THEN rr.status
                                          ELSE tt.status,
                               rows |-> rr.rows, widths |-> al.widths,
                               lines |-> IF rr.status = "ok" /\ tt.status = "ok"
                                         THEN tt.lines ELSE <<>>])))

\* '\n'.join(ls), computed by halves
RECURSIVE JoinLines(_)
JoinLines(ls) ==
    IF ls = <<>> THEN <<>>
    ELSE IF Len(ls) = 1 THEN ls[1]
    ELSE LET h == Len(ls) \div 2
         IN  JoinLines(SubSeq(ls, 1, h)) \o <<10>>
             \o JoinLines(SubSeq(ls, h + 1, Len(ls)))

\* '\n'.join(''.join(line) for line in lines)
payload(lines) == JoinLines([i \in 1..Len(lines) |-> Flatten(lines[i])])

(***************************************************************************)
(* Table.flush: [status, rows, widths, rows_attr, lines, written]; written *)
(* is the sequence of the payloads handed to the output, empty or one;     *)
(* rows_attr is the attribute self.rows, [set, value].                     *)
(***************************************************************************)
flush(rows, widths, rows_attr, style, title, term_width) ==
    Bind(render(rows, widths, style, title, term_width),
         LAMBDA rd :
           [status |-> rd.status, rows |-> rd.rows, widths |-> rd.widths,
            rows_attr |-> IF rd.status = "ok"
                          THEN [set |-> TRUE, value |-> <<>>]
                          ELSE rows_attr,
            lines |-> rd.lines,
            written |-> IF rd.status = "ok" THEN <<payload(rd.lines)>>
                        ELSE <<>>])

(***************************************************************************)
(* State.                                                                  *)
(***************************************************************************)
VARIABLES
    cell,       \* SpecCell: the Cell under split_text
    cwidth,     \* SpecCell: the width handed to split_text
    cstate,     \* SpecCell: "new", "done" (returned) or "hang" (never returns)
    orig,       \* SpecCell: the text of the cell as constructed
    atable,     \* SpecAlloc: the rows of the table
    aterm,      \* SpecAlloc: term_width()
    awidths,    \* SpecAlloc: self.widths
    astatus,    \* SpecAlloc: status
    aremaining, \* SpecAlloc: remaining_size
    aidx,       \* SpecAlloc: idx, the column the for loop is at
    apc,        \* SpecAlloc: where _get_columns_widths is
    awarned,    \* SpecAlloc: the overflow warning was logged
    btable,     \* SpecBorder: the rows of the table
    bstyle,     \* SpecBorder: self.style
    borders,    \* SpecBorder: what get_border returned, per side and cell
    table,      \* Spec: the rows the Table, a list, holds
    self_rows,  \* Spec: the attribute self.rows
    self_widths, \* Spec: self.widths
    self_style, \* Spec: self.style
    self_title, \* Spec: self.title
    term,       \* Spec: term_width()
    buffer,     \* Spec: the buffer the last render returned
    sink,       \* Spec: the payloads written to the output, in order
    outcome,    \* Spec: how the last flush ended
    flushes     \* Spec: the number of calls of flush

cellVars == <<cell, cwidth, cstate, orig>>
allocVars == <<atable, aterm, awidths, astatus, aremaining, aidx, apc, awarned>>
borderVars == <<btable, bstyle, borders>>
tableVars == <<table, self_rows, self_widths, self_style, self_title, term, buffer, sink,
               outcome, flushes>>
vars == <<cellVars, allocVars, borderVars, tableVars>>

CellIdle == cell = <<>> /\ cwidth = 0 /\ cstate = "idle" /\ orig = <<>>

AllocIdle ==
    /\ atable = <<>> /\ aterm = 0 /\ awidths = <<>> /\ astatus = <<>>
    /\ aremaining = 0 /\ aidx = 0 /\ apc = "idle" /\ awarned = FALSE

BorderIdle == btable = <<>> /\ bstyle = "" /\ borders = <<>>

TableIdle ==
    /\ table = <<>> /\ self_rows = <<>> /\ self_widths = <<>> /\ self_style = ""
    /\ self_title = <<>> /\ term = 0 /\ buffer = <<>> /\ sink = <<>>
    /\ outcome = "idle" /\ flushes = 0

(***************************************************************************)
(* SpecCell: one Cell, wrapped once.                                       *)
(***************************************************************************)
Lines == UNION {[1..n -> Chars] : n \in 0..MaxLen}

CellTexts == {<<>>} \cup {<<l>> : l \in Lines}

CellInit ==
    /\ \E text \in CellTexts, pt \in 0..1, pb \in 0..1, pl \in 0..1, pr \in 0..1,
          ha \in HAligns, ind \in 0..MaxIndent :
          /\ cell = Cell(text, -1, -1, -1, pt, pb, pl, pr, ha, ind, AllVisible)
          /\ orig = text
    /\ cwidth \in 0..MaxWidth
    /\ cstate = "new"
    /\ AllocIdle /\ BorderIdle /\ TableIdle

DoSplitText ==
    /\ cstate = "new"
    /\ LET r == split_text(cell, cwidth)
       IN  /\ cell' = r.cell
           /\ cstate' = IF r.ok THEN "done" ELSE "hang"
    /\ UNCHANGED <<cwidth, orig, allocVars, borderVars, tableVars>>

CellNext == DoSplitText

SpecCell == CellInit /\ [][CellNext]_vars

NonSpace(s) == SelectSeq(s, LAMBDA c : c # " ")

CeilDiv(a, b) == (a + b - 1) \div b

\* the wrap width split_text works with
WrapWidth == cwidth - cell.padding_left - cell.padding_right

\* the cell's text was one line, longer than the wrap width
Wrapped == Len(orig) = 1 /\ Len(orig[1]) > WrapWidth

\* the cell's text was a single word longer than the wrap width, and the
\* cell has no top or bottom padding
SingleLongWord ==
    /\ Wrapped
    /\ NonSpace(orig[1]) = orig[1]
    /\ cell.padding_top = 0 /\ cell.padding_bottom = 0

(* C1: when split_text returns, the non-space characters of the wrapped    *)
(* lines, read in order, are the non-space characters of the original text *)
(* lines.                                                                  *)
C1_NoCharDropped ==
    cstate = "done" => NonSpace(Flatten(cell.text)) = NonSpace(Flatten(orig))

(* C2: every line split_text leaves in cell.text is exactly as long as the *)
(* column width it was called with, for each alignment.                    *)
C2_LineLength ==
    cstate = "done" => \A i \in 1..Len(cell.text) : Len(cell.text[i]) = cwidth

C2_Witness ==
    /\ cstate = "done" /\ Wrapped
    /\ cell.halign = "center"
    /\ Len(cell.text) >= 3
    /\ cell.padding_left = 1 /\ cell.padding_right = 1

AllocatorWidth == cwidth >= cell.padding_left + 1 + cell.padding_right

(* C13: split_text terminates for every cell and every width that is at    *)
(* least padding_left + 1 + padding_right, for every newline_indent.       *)
C13_SplitTerminates == (cstate # "new" /\ AllocatorWidth) => cstate = "done"

(***************************************************************************)
(* SpecAlloc: _get_columns_widths, one column visit of the growth loop at  *)
(* a time.                                                                 *)
(***************************************************************************)
AllocTexts == {<<<<>>>>, <<<<"a", "a", "a", "a">>>>}

AllocCells ==
    {Cell(text, mn, w, mx, 0, 0, 1, 1, "left", 1, AllVisible) :
        text \in AllocTexts, mn \in {-1, 4}, w \in {-1, 5}, mx \in {-1, 2, 5}}

\* the cells of a second row
AllocCells2 ==
    {DefaultCell(<<<<"a", "a">>>>),
     Cell(<<<<"a">>>>, 5, -1, 4, 0, 0, 1, 1, "left", 1, AllVisible)}

AllocRows(S) == {<<k>> : k \in S} \cup {<<k1, k2>> : k1 \in S, k2 \in S}

AllocTables ==
    {<<>>} \cup {<<r>> : r \in AllocRows(AllocCells)}
    \cup {<<r1, r2>> : r1 \in AllocRows(AllocCells), r2 \in AllocRows(AllocCells2)}

AllocInit ==
    /\ atable \in AllocTables
    /\ aterm \in 0..MaxTerm
    /\ awidths = <<>> /\ astatus = <<>> /\ aremaining = 0 /\ aidx = 0
    /\ apc = "seed" /\ awarned = FALSE
    /\ CellIdle /\ BorderIdle /\ TableIdle

AllocState == [widths |-> awidths, status |-> astatus,
               remaining |-> aremaining, brk |-> FALSE]

\* lines 570-593: the columns are aggregated and the widths seeded
AllocSeed ==
    /\ apc = "seed"
    /\ LET sd == seed_widths(columns_widths(atable), aterm)
       IN  /\ awidths' = sd.widths
           /\ astatus' = sd.status
           /\ aremaining' = sd.remaining
    /\ apc' = "while"
    /\ UNCHANGED <<atable, aterm, aidx, awarned, cellVars, borderVars, tableVars>>

\* lines 595-599: the test of the while loop, then the for loop starts
AllocWhile ==
    /\ apc = "while"
    /\ IF aremaining <= 0 \/ AllDone(astatus)
       THEN apc' = "check" /\ aidx' = aidx
       ELSE apc' = "for" /\ aidx' = 1
    /\ UNCHANGED <<atable, aterm, awidths, astatus, aremaining, awarned, cellVars, borderVars, tableVars>>

\* lines 599-617: the for loop visits column aidx, or ends
AllocVisit ==
    /\ apc = "for"
    /\ IF aidx > Len(awidths)
       THEN /\ apc' = "while"
            /\ UNCHANGED <<awidths, astatus, aremaining, aidx>>
       ELSE LET st == visit_column(columns_widths(atable), AllocState, aidx)
            IN  /\ awidths' = st.widths
                /\ astatus' = st.status
                /\ aremaining' = st.remaining
                /\ IF st.brk THEN apc' = "while" /\ aidx' = aidx
                   ELSE apc' = "for" /\ aidx' = aidx + 1
    /\ UNCHANGED <<atable, aterm, awarned, cellVars, borderVars, tableVars>>

\* lines 619-623: the overflow warning, and the return
AllocReturn ==
    /\ apc = "check"
    /\ awarned' = (aremaining < 0)
    /\ apc' = "done"
    /\ UNCHANGED <<atable, aterm, awidths, astatus, aremaining, aidx, cellVars, borderVars, tableVars>>

AllocNext == AllocSeed \/ AllocWhile \/ AllocVisit \/ AllocReturn

SpecAlloc == AllocInit /\ [][AllocNext]_vars

SeededRemaining == seed_widths(columns_widths(atable), aterm).remaining

(* C3: when _get_columns_widths returns, the widths and the borders fit    *)
(* the terminal unless the overflow warning was logged, which happens      *)
(* exactly when remaining_size was negative after seeding; the growth loop *)
(* never drives remaining_size below zero.                                 *)
C3_FitsOrWarned ==
    /\ apc = "done" =>
          /\ (SumSeq(awidths) + Len(awidths) + 1 <= aterm) \/ awarned
          /\ awarned <=> SeededRemaining < 0
    /\ apc \in {"while", "for", "check", "done"} =>
          (aremaining >= 0 \/ aremaining = SeededRemaining)

C3_Witness ==
    /\ apc = "done" /\ ~awarned
    /\ Len(awidths) = 2
    /\ awidths # seed_widths(columns_widths(atable), aterm).widths
    /\ aremaining = 0
    /\ ~AllDone(astatus)

\* the columns and their seeding, as they were when the growth loop began
AColumns == columns_widths(atable)
ASeed == seed_widths(AColumns, aterm)

\* the units the growth loop has granted to column i, the widths being ws
Granted(seed, ws, i) == ws[i] - seed.widths[i]

\* column i was not done after seeding and is below its target
Growing(columns, seed, ws, i) ==
    ~seed.status[i] /\ ws[i] < preferred_width(columns[i])

(* C15: growth is round-robin and one unit at a time: a step of the loop   *)
(* grants at most one unit, to the column the for loop is at; of two       *)
(* columns i < j that were not done after seeding and are below their      *)
(* targets, i has been granted as many units as j or one more; and a       *)
(* column with an explicit width keeps exactly that width.                 *)
C15_RoundRobin ==
    [][\E columns \in {AColumns} : \E seed \in {seed_widths(columns, aterm)} :
         /\ apc # "seed" =>
              \A i \in 1..Len(awidths) :
                  /\ awidths'[i] - awidths[i] \in {0, 1}
                  /\ awidths'[i] # awidths[i] => (apc = "for" /\ i = aidx)
         /\ \A i \in 1..Len(awidths') : \A j \in (i + 1)..Len(awidths') :
                (/\ Growing(columns, seed, awidths', i)
                 /\ Growing(columns, seed, awidths', j))
                    => Granted(seed, awidths', i) - Granted(seed, awidths', j)
                         \in {0, 1}
         /\ \A i \in 1..Len(awidths') :
                columns[i].width # -1 => awidths'[i] = columns[i].width]_vars

\* in the middle of the second pass: the first column has two units, the
\* second one, and both are below their targets
C15_Witness ==
    /\ apc = "for" /\ aidx = 2 /\ Len(awidths) = 2
    /\ Growing(AColumns, ASeed, awidths, 1) /\ Growing(AColumns, ASeed, awidths, 2)
    /\ Granted(ASeed, awidths, 1) = 2 /\ Granted(ASeed, awidths, 2) = 1

(***************************************************************************)
(* SpecBorder: get_border on every side of every cell of a rectangular     *)
(* table, as render calls it.                                              *)
(***************************************************************************)
NoneVisible == [top |-> FALSE, right |-> FALSE, bottom |-> FALSE, left |-> FALSE]
HideLeft == [top |-> TRUE, right |-> TRUE, bottom |-> TRUE, left |-> FALSE]

Visibilities == {AllVisible, NoneVisible, HideLeft}

BorderCell(v) == Cell(<<<<"a">>>>, -1, -1, -1, 0, 0, 1, 1, "left", 1, v)

BorderTables ==
    UNION {[1..R -> [1..C -> {BorderCell(v) : v \in Visibilities}]] :
              R \in 1..MaxBorderRows, C \in 1..MaxBorderCols}

Positions(rows) ==
    {<<side, r, c>> : side \in Sides, r \in 1..Len(rows), c \in 1..Len(rows[1])}

BorderInit ==
    /\ btable \in BorderTables
    /\ bstyle \in StyleNames
    /\ borders = <<>>
    /\ CellIdle /\ AllocIdle /\ TableIdle

\* the calls of get_border that render makes (lines 533-558)
ComposeBorders ==
    /\ borders = <<>>
    /\ borders' = [p \in Positions(btable) |->
                     get_border(btable, Len(btable[1]), bstyle, p[1], p[2], p[3])]
    /\ UNCHANGED <<btable, bstyle, cellVars, allocVars, tableVars>>

BorderNext == ComposeBorders

SpecBorder == BorderInit /\ [][BorderNext]_vars

Composed == borders # <<>>
BRows == Len(btable)
BCols == Len(btable[1])

FullyVisible(rows) ==
    \A r \in 1..Len(rows) : \A c \in 1..Len(rows[r]) :
        rows[r][c].border_visibility = AllVisible

\* The junction at grid point (i, j), 0 <= i <= rows, 0 <= j <= columns, is
\* written by the cell under and right of it when it is on the top or left
\* edge, and by the cell over and left of it otherwise.
Junction(i, j) ==
    IF i = 0 THEN IF j = 0 THEN borders[<<"topleft", 1, 1>>]
                  ELSE borders[<<"topright", 1, j>>]
    ELSE IF j = 0 THEN borders[<<"bottomleft", i, 1>>]
         ELSE borders[<<"bottomright", i, j>>]

\* the role of the junction (i, j) of a full grid
CanonicalRole(i, j, R, C) ==
    CASE i = 0 /\ j = 0 -> "topleft"
      [] i = 0 /\ j = C -> "topright"
      [] i = R /\ j = 0 -> "bottomleft"
      [] i = R /\ j = C -> "bottomright"
      [] i = 0 /\ j \in 1..(C - 1) -> "topinter"
      [] i = R /\ j \in 1..(C - 1) -> "bottominter"
      [] j = 0 /\ i \in 1..(R - 1) -> "leftinter"
      [] j = C /\ i \in 1..(R - 1) -> "rightinter"
      [] OTHER -> "intersection"

(* C4: in a rectangular table whose cells all show their four borders, the *)
(* junctions are the canonical grid (corners, tees on the outer edges, the *)
(* cross inside), every edge run is horizontal or vertical, and no other   *)
(* border glyph is written.                                                *)
C4_CanonicalGrid ==
    (Composed /\ FullyVisible(btable)) =>
        /\ \A i \in 0..BRows : \A j \in 0..BCols :
              Junction(i, j)
                = Glyph(STYLES[bstyle][CanonicalRole(i, j, BRows, BCols)])
        /\ \A r \in 1..BRows : \A c \in 1..BCols :
              /\ borders[<<"bottomhoriz", r, c>>] = Glyph(STYLES[bstyle].horizontal)
              /\ borders[<<"rightvert", r, c>>] = Glyph(STYLES[bstyle].vertical)
              /\ borders[<<"tophoriz", r, c>>]
                   = IF r = 1 THEN Glyph(STYLES[bstyle].horizontal) ELSE NoGlyph
              /\ borders[<<"leftvert", r, c>>]
                   = IF c = 1 THEN Glyph(STYLES[bstyle].vertical) ELSE NoGlyph
              /\ (r > 1 \/ c > 1) => borders[<<"topleft", r, c>>] = NoGlyph
              /\ r > 1 => borders[<<"topright", r, c>>] = NoGlyph
              /\ c > 1 => borders[<<"bottomleft", r, c>>] = NoGlyph

C4_Witness ==
    /\ Composed /\ FullyVisible(btable)
    /\ BRows = 2 /\ BCols = 2
    /\ bstyle = "modern"
    /\ Junction(1, 1).glyph = 9532

\* the 2 x 2 table whose top cells show every border and whose bottom cells
\* hide every border
TopOnly ==
    <<<<BorderCell(AllVisible), BorderCell(AllVisible)>>,
      <<BorderCell(NoneVisible), BorderCell(NoneVisible)>>>>

Tees(style) ==
    {STYLES[style][role] :
        role \in {"topinter", "bottominter", "leftinter", "rightinter"}}

(* C5: in the 2 x 2 table whose top cells show every border and whose      *)
(* bottom cells hide every border, the interior junction is a tee, not the *)
(* cross and not blank.                                                    *)
C5_TeeJunction ==
    (Composed /\ btable = TopOnly) =>
        /\ Junction(1, 1).some
        /\ Junction(1, 1).glyph \in Tees(bstyle)
        /\ Junction(1, 1).glyph # STYLES[bstyle].none
        /\ bstyle = "modern" => Junction(1, 1).glyph # STYLES[bstyle].intersection

(* C14: the right vertical edge of a cell that has a right-hand neighbour  *)
(* is the vertical glyph if the cell shows its right edge and the          *)
(* neighbour its left edge, and the blank glyph otherwise, whatever the    *)
(* cells of the other rows show.                                           *)
C14_RightVertNeighbour ==
    Composed =>
        \A r \in 1..BRows : \A c \in 1..(BCols - 1) :
            borders[<<"rightvert", r, c>>]
              = Glyph(IF /\ btable[r][c].border_visibility.right
                         /\ btable[r][c + 1].border_visibility.left
                      THEN STYLES[bstyle].vertical
                      ELSE STYLES[bstyle].none)

(***************************************************************************)
(* Spec: a TextTable; rows are appended to it and it is flushed.           *)
(***************************************************************************)
CellA == DefaultCell(<<<<"a">>>>)

CellB == DefaultCell(<<<<"a", "a", "a", "a">>>>)

CellC ==
    Cell(<<<<"a", "b", " ", "a">>>>, -1, -1, -1, 1, 0, 0, 1, "center", 0, HideLeft)

\* rows of no cell, of one cell and of two cells
TableRows ==
    {<<>>, <<CellA>>, <<CellB>>}
    \cup {<<k1, k2>> : k1 \in {CellA, CellC}, k2 \in {CellB, CellC}}

\* "fancy" is not a key of STYLES
TableStyles == {"modern", "classic", "fancy"}

\* no title, a title of one character, and one as long as the first line
\* of a table whose only column is three wide
TableTitles == {<<>>, <<"T">>, <<"T", "T", "T", "T", "T">>}

\* at 8 columns two cells get their least widths, at 11 a cell alone gets
\* the width of its text
TableTerms == {8, 11}

\* TextTable.__init__: the widths handed to it are not kept
Init ==
    /\ table = <<>>
    /\ self_rows = [set |-> FALSE, value |-> <<>>]
    /\ self_widths = <<>>
    /\ self_style \in TableStyles
    /\ self_title \in TableTitles
    /\ term \in TableTerms
    /\ buffer = <<>>
    /\ sink = <<>>
    /\ outcome = "new"
    /\ flushes = 0
    /\ CellIdle /\ AllocIdle /\ BorderIdle

\* list.append(row); a flush that never returns leaves no caller to append
AppendRow ==
    /\ outcome # "hang"
    /\ Len(table) < MaxRows
    /\ \E row \in TableRows : table' = Append(table, row)
    /\ UNCHANGED <<self_rows, self_widths, self_style, self_title, term, buffer, sink, outcome,
                   flushes, cellVars, allocVars, borderVars>>

Flush ==
    /\ outcome # "hang"
    /\ flushes < MaxFlushes
    /\ \E f \in {flush(table, self_widths, self_rows, self_style, self_title, term)} :
           /\ table' = f.rows
           /\ self_widths' = f.widths
           /\ self_rows' = f.rows_attr
           /\ buffer' = f.lines
           /\ sink' = sink \o f.written
           /\ outcome' = f.status
    /\ flushes' = flushes + 1
    /\ UNCHANGED <<self_style, self_title, term, cellVars, allocVars, borderVars>>

Next == AppendRow \/ Flush

Spec == Init /\ [][Next]_vars

\* a step of the table that is a call of flush
FlushStep == flushes' = flushes + 1

Rectangular(rows) ==
    rows # <<>> /\ \A r \in 1..Len(rows) : Len(rows[r]) = Len(rows[1])

Ragged(rows, widths) == \E r \in 1..Len(rows) : Len(rows[r]) # Len(widths)

\* the number of lines of the cells of row r, the highest of them
RowHeight(row) == MaxOf({Len(row[c].text) : c \in 1..Len(row)})

(***************************************************************************)
(* C7: when render returns the buffer of a rectangular table of at least   *)
(* one row, every line of the buffer has sum(self.widths) + number of      *)
(* columns + 1 characters.                                                 *)
(***************************************************************************)
C7_LineWidth ==
    [][(FlushStep /\ outcome' = "ok" /\ Rectangular(table'))
          => \A i \in 1..Len(buffer') :
                Len(Flatten(buffer'[i]))
                  = SumSeq(self_widths') + Len(table'[1]) + 1]_vars

\* two rows of two cells were rendered, one row with cells of different
\* heights; the border line between the rows is shared
C7_Witness ==
    /\ outcome = "ok" /\ Len(table) = 2 /\ Rectangular(table)
    /\ Len(table[1]) = 2
    /\ \E r \in 1..2 : Len(table[r][1].text) # Len(table[r][2].text)
    /\ Len(buffer) = RowHeight(table[1]) + RowHeight(table[2]) + 3
    /\ \A i \in 1..Len(buffer) :
          Len(Flatten(buffer[i])) = SumSeq(self_widths) + 3

(***************************************************************************)
(* C8: after a flush that returns, the table holds no row.                 *)
(***************************************************************************)
C8_RowsCleared ==
    [][(FlushStep /\ outcome' = "ok") => table' = <<>>]_vars

(***************************************************************************)
(* C9: a flush of a table one of whose rows has not as many cells as there *)
(* are column widths ends with an exception, and writes nothing.           *)
(***************************************************************************)
C9_RaggedRaises ==
    [][(FlushStep /\ Ragged(table', self_widths'))
          => /\ outcome' \in {"IndexError", "ValueError", "KeyError"}
             /\ sink' = sink]_vars

(***************************************************************************)
(* C10: a flush of a table whose style is not a key of STYLES ends with an *)
(* exception before anything is done: no width is allocated, no cell is    *)
(* wrapped and nothing is written.                                         *)
(***************************************************************************)
C10_UnknownStyleRaises ==
    [][(FlushStep /\ self_style \notin StyleNames)
          => /\ outcome' = "KeyError"
             /\ self_widths' = self_widths
             /\ table' = table
             /\ sink' = sink]_vars

\* the status of the flush of the same table without a title
UntitledStatus ==
    flush(table, self_widths, self_rows, self_style, <<>>, term).status

(***************************************************************************)
(* C11: overlaying the title never fails: a flush that returns without a   *)
(* title returns with any title, and character k of the title is the       *)
(* segment k + 1 of the first line of the buffer, counted from 0.          *)
(***************************************************************************)
C11_TitleNeverFails ==
    [][(FlushStep /\ self_title # <<>> /\ UntitledStatus = "ok")
          => /\ outcome' = "ok"
             /\ \A k \in 1..Len(self_title) :
                   buffer'[1][k + 1] = <<Code(self_title[k])>>]_vars

(***************************************************************************)
(* _get_columns_widths runs to its end unless it loops: the interpreter    *)
(* always takes the next step of the call.                                 *)
(***************************************************************************)
FairCells ==
    {Cell(<<<<"a", "a", "a", "a">>>>, mn, -1, mx, 0, 0, 1, 1, "left", 1, AllVisible) :
        mn \in {-1, 4}, mx \in {-1, 2, 5}}

\* tables of one row
FairTables == {<<r>> : r \in AllocRows(FairCells)}

AllocFairInit ==
    /\ atable \in FairTables
    /\ aterm \in 0..MaxTerm
    /\ awidths = <<>> /\ astatus = <<>> /\ aremaining = 0 /\ aidx = 0
    /\ apc = "seed" /\ awarned = FALSE
    /\ CellIdle /\ BorderIdle /\ TableIdle

SpecAllocFair == AllocFairInit /\ [][AllocNext]_vars /\ WF_vars(AllocNext)

(***************************************************************************)
(* C12: _get_columns_widths terminates, for every table and every terminal *)
(* width.                                                                  *)
(***************************************************************************)
C12_Terminates == <>(apc = "done")

=============================================================================
